---- MODULE Spec2Model ----
(***************************************************************************)
(* A model of the tasks API of src/src/index.ts: the middleware chain      *)
(* (cors, jwt, csrf, rateLimiter), the zod validators and the task and     *)
(* comment handlers, running as concurrent requests against the two KV     *)
(* namespaces TASKS and COMMENTS.                                          *)
(*                                                                         *)
(* A request suspends only at its awaits on the store; each action below   *)
(* is the synchronous code around one store operation, and the store       *)
(* operation takes effect in that action.  The clock is Date.now() in      *)
(* milliseconds; it never runs backwards.                                  *)
(*                                                                         *)
(* Spec runs the routes of single tasks and comments while time passes;    *)
(* ListSpec runs the task list with the update and the delete of tasks     *)
(* against a store whose operations may fail; CommentSpec runs the comment *)
(* list with the update and the delete of comments and the delete of       *)
(* tasks.                                                                  *)
(***************************************************************************)
EXTENDS Integers, Sequences, FiniteSets, Bags, TLC

VARIABLES
    now,        \* Date.now(), in milliseconds
    ticks,      \* how many times the clock has advanced
    TASKS,      \* env.TASKS: key -> [v, exp]; holds task records AND rate-limit counters
    COMMENTS,   \* env.COMMENTS: key -> [v, exp]
    req,        \* the bag of requests in flight
    sent,       \* the request answered by the last step, with its response (or IdleReq)
    nreq,       \* requests received so far
    ids,        \* nanoid() draws so far
    acceptLog,  \* history: per IP, how many requests the rate limiter passed on at each time
    created,    \* history: task id -> the createdAt POST /tasks gave it
    deleted,    \* history: the bag of ids whose DELETE /tasks/:id has been answered
    serial,     \* history: no request was received while another was being processed
    fresh       \* history: task id -> the 201 response of its POST, until a PUT or DELETE writes that id

vars == <<now, ticks, TASKS, COMMENTS, req, sent, nreq, ids, acceptLog, created, deleted, serial, fresh>>

---------------------------------------------------------------------------
(* Bounds of the model *)

MaxRequests == 2
MaxIds == 3
MaxTicks == 1

(* Program constants *)

limit == 100
window == 60

---------------------------------------------------------------------------
(* Values *)

EmptyObj == [f \in {} |-> ""]

\* What a KV get returns / a put stores: the text of a number ("57"), the text
\* "NaN", the JSON text of an object, or null (key absent).
Null == [t |-> "null", n |-> 0, o |-> EmptyObj]
NumText(k) == [t |-> "num", n |-> k, o |-> EmptyObj]
NaNText == [t |-> "nan", n |-> 0, o |-> EmptyObj]
\* A string the code looks into (an id, a key, a URL, a query value) is the
\* sequence of its characters: "1abc" is <<"1", "a", "b", "c">>. A character
\* that cannot be written in a string here is named by its code point, as in
\* "U+2028".

\* A text a client sends in the query
StrText(chars) == [t |-> "str", n |-> 0, o |-> EmptyObj, s |-> chars]
\* A string in the JSON of a response
JsonString(str) == [t |-> "string", n |-> 0, o |-> EmptyObj, s |-> str]
\* JSON.stringify of a record and JSON.parse of the text give back its strings,
\* integers and arrays of strings unchanged; records hold nothing else.
JsonText(obj) == [t |-> "obj", n |-> 0, o |-> obj]

\* JavaScript numbers, as far as the code needs them: an integer or NaN. The
\* integers are those below 2^31; a longer run of digits is outside the model.
NaN == [nan |-> TRUE, n |-> 0]
Number(k) == [nan |-> FALSE, n |-> k]

\* The digits of parseInt and their values; radix 16 after a prefix 0x or 0X
HexDigits == <<"0", "1", "2", "3", "4", "5", "6", "7", "8", "9", "a", "b", "c", "d", "e", "f">>
DigitValue(c, radix) ==
    LET lower == CASE c = "A" -> "a" [] c = "B" -> "b" [] c = "C" -> "c"
                   [] c = "D" -> "d" [] c = "E" -> "e" [] c = "F" -> "f" [] OTHER -> c
    IN  IF \E d \in 1..radix : HexDigits[d] = lower
        THEN (CHOOSE d \in 1..radix : HexDigits[d] = lower) - 1
        ELSE 0 - 1
\* StrWhiteSpaceChar: TAB, VT, FF, SP, NBSP, ZWNBSP, the category Zs, and the
\* line terminators LF, CR, LS, PS
WhiteSpace ==
    {"\t", "U+000B", "\f", " ", "U+00A0", "U+FEFF",
     "U+1680", "U+2000", "U+2001", "U+2002", "U+2003", "U+2004", "U+2005", "U+2006",
     "U+2007", "U+2008", "U+2009", "U+200A", "U+202F", "U+205F", "U+3000",
     "\n", "\r", "U+2028", "U+2029"}

\* The characters after the leading white space
RECURSIVE TrimStart(_)
TrimStart(chars) ==
    IF chars # <<>> /\ Head(chars) \in WhiteSpace THEN TrimStart(Tail(chars)) ELSE chars

\* The value of the longest run of digits at the start of chars, after the digits
\* read so far, whose value is acc; seen tells whether a digit has been read
RECURSIVE ParseDigits(_, _, _, _)
ParseDigits(chars, radix, acc, seen) ==
    IF chars # <<>> /\ DigitValue(Head(chars), radix) >= 0
    THEN ParseDigits(Tail(chars), radix, acc * radix + DigitValue(Head(chars), radix), TRUE)
    ELSE [n |-> acc, seen |-> seen]

\* parseInt of a string: white space, a sign, 0x or 0X, then digits as far as they
\* go; NaN when there is none
ParseChars(chars) ==
    LET trimmed == TrimStart(chars)
        signed == trimmed # <<>> /\ Head(trimmed) \in {"+", "-"}
        sign == IF trimmed # <<>> /\ Head(trimmed) = "-" THEN 0 - 1 ELSE 1
        rest == IF signed THEN Tail(trimmed) ELSE trimmed
        hex == Len(rest) >= 2 /\ rest[1] = "0" /\ rest[2] \in {"x", "X"}
        out == IF hex THEN ParseDigits(Tail(Tail(rest)), 16, 0, FALSE)
               ELSE ParseDigits(rest, 10, 0, FALSE)
    IN  IF out.seen THEN Number(sign * out.n) ELSE NaN

\* parseInt(text): of the text of a number, the number; of a string, its leading
\* digits; NaN for "NaN" and for JSON text, which starts with "{".
parseInt(text) ==
    CASE text.t = "num" -> Number(text.n)
      [] text.t = "str" -> ParseChars(text.s)
      [] OTHER -> NaN

\* The decimal digits of an integer
RECURSIVE NatChars(_)
NatChars(k) ==
    IF k < 10 THEN <<HexDigits[k + 1]>> ELSE NatChars(k \div 10) \o <<HexDigits[(k % 10) + 1]>>
NumChars(k) == IF k < 0 THEN <<"-">> \o NatChars(0 - k) ELSE NatChars(k)

\* (x).toString()
toString(x) == IF x.nan THEN NaNText ELSE NumText(x.n)

\* x + 1 and x >= y in JavaScript: NaN + 1 is NaN, NaN >= y is false.
PlusOne(x) == IF x.nan THEN NaN ELSE Number(x.n + 1)
GreaterEq(x, k) == ~x.nan /\ x.n >= k

NoExpiration == 0 - 1

---------------------------------------------------------------------------
(* The KV namespaces *)

KVGet(store, key) == IF key \in DOMAIN store THEN store[key].v ELSE Null

KVPut(store, key, text, exp) == (key :> [v |-> text, exp |-> exp]) @@ store

KVDelete(store, key) == [k \in DOMAIN store \ {key} |-> store[k]]

\* A history map without the entry of key
Without(map, key) == [k \in DOMAIN map \ {key} |-> map[k]]

\* Keys whose expirationTtl has run out are gone.
KVExpire(store, t) ==
    [k \in {k \in DOMAIN store : store[k].exp = NoExpiration \/ t < store[k].exp} |-> store[k]]

---------------------------------------------------------------------------
(* Requests *)

\* The CF-Connecting-IP of the client
ClientIP == <<"1", ".", "1", ".", "1", ".", "1">>
IPs == {ClientIP}

\* `rate_limit:${ip}`
rateLimitKey(ip) == <<"r", "a", "t", "e", "_", "l", "i", "m", "i", "t", ":">> \o ip

\* nanoid(): the k-th draw
nanoid(k) == <<"i", "d">> \o NumChars(k)

\* `${taskId}:${commentId}`
commentKey(taskId, commentId) == taskId \o <<":">> \o commentId

\* The :id and :commentId a client may put in the path: any id nanoid can give,
\* and the keys the rate limiter uses.
PathIds == {nanoid(k) : k \in 1..MaxIds} \cup {rateLimitKey(ip) : ip \in IPs}
CommentIds == {nanoid(k) : k \in 1..MaxIds}
\* The :id of a comment list: also an id that begins like the path segment
CommentListIds == PathIds \cup {<<"c", "o", "m", "m", "e", "n", "t", "s", "2">>}

PostTask == "POST /api/v1/tasks"
GetTask == "GET /api/v1/tasks/:id"
PutTask == "PUT /api/v1/tasks/:id"
DeleteTask == "DELETE /api/v1/tasks/:id"
PostComment == "POST /api/v1/tasks/:id/comments"
DeleteComment == "DELETE /api/v1/tasks/:id/comments/:commentId"
ListTasks == "GET /api/v1/tasks"
ListComments == "GET /api/v1/tasks/:id/comments"
PutComment == "PUT /api/v1/tasks/:id/comments/:commentId"

\* The routes of the three specifications: the single-record routes of tasks and
\* comments; the task list with the update and the delete of tasks; the comment
\* list with the update and the delete of comments and the delete of tasks.
Routes == {PostTask, GetTask, PutTask, DeleteTask, PostComment, DeleteComment}
ListRoutes == {ListTasks, PutTask, DeleteTask}
CommentRoutes == {ListComments, PutComment, DeleteComment, DeleteTask}

HasId(route) == route \notin {PostTask, ListTasks}
HasCommentId(route) == route \in {DeleteComment, PutComment}
HasValidator(route) == route \in {PostTask, PutTask, PostComment, PutComment}
Method(route) ==
    CASE route \in {PostTask, PostComment} -> "POST"
      [] route \in {GetTask, ListTasks, ListComments} -> "GET"
      [] route \in {PutTask, PutComment} -> "PUT"
      [] OTHER -> "DELETE"

\* The values of a JSON body: a string, a number, an array of values
JString(str) == [type |-> "string", s |-> str, n |-> 0, a |-> <<>>]
JNumber(k) == [type |-> "number", s |-> "", n |-> k, a |-> <<>>]
JArray(seq) == [type |-> "array", s |-> "", n |-> 0, a |-> seq]

\* JSON bodies a client sends
Bodies ==
    { [title |-> JString("a")],
      [status |-> JString("done")],
      [title |-> JString("b"), labels |-> JArray(<<JString("x")>>),
       id |-> JString("zz"), createdAt |-> JNumber(7)],
      [title |-> JString("a"), labels |-> JString("x")],
      [title |-> JString("a"), labels |-> JArray(<<JNumber(7)>>)],
      [title |-> JNumber(7)],
      [content |-> JString("hi")] }

NoResp == [kind |-> "none", text |-> "", obj |-> EmptyObj]
JsonError(msg) == [kind |-> "json", text |-> msg, obj |-> ("error" :> msg)]
JsonMessage(msg) == [kind |-> "json", text |-> msg, obj |-> ("message" :> msg)]
JsonObj(obj) == [kind |-> "json", text |-> "", obj |-> obj]
Text(msg) == [kind |-> "text", text |-> msg, obj |-> EmptyObj]

IdleReq ==
    [pc |-> "idle", route |-> "", id |-> <<>>, cid |-> <<>>, ip |-> <<>>, body |-> EmptyObj,
     valid |-> EmptyObj, count |-> Null, task |-> Null, status |-> 0, resp |-> NoResp,
     stages |-> <<>>, ops |-> <<>>, query |-> EmptyObj, keys |-> <<>>, texts |-> <<>>]

Op(store, op, key) == [store |-> store, op |-> op, key |-> key]

\* A response ends the request q, which has become q2.
Respond(q, q2, status, resp) ==
    /\ req' = req (-) SetToBag({q})
    /\ sent' = [q2 EXCEPT !.pc = "done", !.status = status, !.resp = resp]

\* The request q goes on as q2.
Continue(q, q2) ==
    /\ req' = (req (-) SetToBag({q})) (+) SetToBag({q2})
    /\ sent' = IdleReq

\* app.onError
onError == [status |-> 500, resp |-> JsonError("Internal Server Error")]

\* c.notFound(): Hono's default not-found response
notFound == [status |-> 404, resp |-> Text("404 Not Found")]

---------------------------------------------------------------------------
(* The middleware chain, in the order of registration *)

\* Mutant: the rate limiter registered before authentication
MiddlewareLimiterFirst == <<"cors", "rateLimiter", "jwt", "csrf">>

Middleware == <<"cors", "jwt", "csrf", "rateLimiter">>

\* Where next() leads from middleware number i of the chain
NextOf(i, route) ==
    IF i < Len(Middleware) THEN Middleware[i + 1]
    ELSE IF HasValidator(route) THEN "zValidator" ELSE "handler"

IndexOf(name) == CHOOSE i \in 1..Len(Middleware) : Middleware[i] = name

Next_(name, route) == NextOf(IndexOf(name), route)

Enter(q, stage) == [q EXCEPT !.pc = stage, !.stages = Append(@, stage)]

---------------------------------------------------------------------------
(* The schemas *)

TaskFields == {"title", "status", "priority", "labels"}
Statuses == {"todo", "in-progress", "done"}
Priorities == {"low", "medium", "high"}

\* z.string().min(lo).max(hi), z.enum(values), z.array(z.string())
IsString(j, lo, hi) == j.type = "string" /\ Len(j.s) >= lo /\ Len(j.s) <= hi
IsEnum(j, values) == j.type = "string" /\ j.s \in values
IsStringArray(j) == j.type = "array" /\ \A i \in 1..Len(j.a) : j.a[i].type = "string"

\* What a schema hands to the handler for a value it accepted
Parsed(j) ==
    CASE j.type = "string" -> j.s
      [] j.type = "number" -> j.n
      [] OTHER -> [i \in 1..Len(j.a) |-> j.a[i].s]

\* The parsed fields of b that the schema knows; unknown keys are stripped
Restrict(b, S) == [k \in DOMAIN b \cap S |-> Parsed(b[k])]

\* The checks of taskSchema on the fields a body has
TaskFieldsOk(b) ==
    /\ "title" \in DOMAIN b => IsString(b.title, 1, 100)
    /\ "status" \in DOMAIN b => IsEnum(b.status, Statuses)
    /\ "priority" \in DOMAIN b => IsEnum(b.priority, Priorities)
    /\ "labels" \in DOMAIN b => IsStringArray(b.labels)

\* taskSchema: title is required, the defaults fill in, unknown keys are stripped.
taskSchemaOk(b) == "title" \in DOMAIN b /\ TaskFieldsOk(b)
taskSchema(b) ==
    Restrict(b, TaskFields) @@ [status |-> "todo", priority |-> "medium", labels |-> <<>>]

\* taskSchema.partial(): every field optional; an absent field stays absent.
taskSchemaPartialOk(b) == TaskFieldsOk(b)

\* Mutant: the partial schema fills in the defaults of the absent fields
taskSchemaPartialDefaults(b) ==
    Restrict(b, TaskFields) @@ [status |-> "todo", priority |-> "medium", labels |-> <<>>]

taskSchemaPartial(b) == Restrict(b, TaskFields)

\* commentSchema
commentSchemaOk(b) == "content" \in DOMAIN b /\ IsString(b.content, 1, 500)
commentSchema(b) == Restrict(b, {"content"})

\* commentSchema.partial()
commentSchemaPartialOk(b) == "content" \in DOMAIN b => IsString(b.content, 1, 500)
commentSchemaPartial(b) == Restrict(b, {"content"})

SchemaOk(route, b) ==
    CASE route = PostTask -> taskSchemaOk(b)
      [] route = PutTask -> taskSchemaPartialOk(b)
      [] route = PutComment -> commentSchemaPartialOk(b)
      [] OTHER -> commentSchemaOk(b)

SchemaParse(route, b) ==
    CASE route = PostTask -> taskSchema(b)
      [] route = PutTask -> taskSchemaPartial(b)
      [] route = PutComment -> commentSchemaPartial(b)
      [] OTHER -> commentSchema(b)

\* The body zValidator answers a failed parse with: { success: false, error },
\* where error is the ZodError object { issues, name }, kept here by its name.
ZodError == [kind |-> "json", text |-> "ZodError", obj |-> [success |-> FALSE, error |-> "ZodError"]]

---------------------------------------------------------------------------
(* The middleware *)

\* A request arrives: the router has its method and path pattern; cors() adds its
\* headers and calls next(). The header, the body and the path parameters are
\* drawn where the code first reads them.
Receive ==
    /\ nreq < MaxRequests
    /\ \E route \in Routes :
         /\ sent' = IdleReq
         /\ req' = req (+) SetToBag({Enter(Enter([IdleReq EXCEPT !.route = route], "cors"), Next_("cors", route))})
    /\ nreq' = nreq + 1
    /\ serial' = (serial /\ req = EmptyBag)
    /\ UNCHANGED <<now, ticks, TASKS, COMMENTS, ids, acceptLog, created, deleted, fresh>>

\* The jwt wrapper: jwt() throws on a missing or invalid credential, before it
\* calls next(); the catch answers 401.
Jwt ==
  \E q0 \in BagToSet(req) :
    /\ q0.pc = "jwt"
    /\ \E credentialOk \in BOOLEAN :
         IF credentialOk
         THEN Continue(q0, Enter(q0, Next_("jwt", q0.route)))
         ELSE Respond(q0, q0, 401, JsonError("Unauthorized"))
    /\ UNCHANGED <<now, ticks, TASKS, COMMENTS, nreq, ids, acceptLog, created, deleted, serial, fresh>>

\* csrf(): GET and HEAD pass; another method is refused when it comes from a
\* form of a foreign origin. csrf() throws then, and app.onError answers.
Csrf ==
  \E q0 \in BagToSet(req) :
    /\ q0.pc = "csrf"
    /\ \E foreignForm \in BOOLEAN :
         IF Method(q0.route) = "GET" \/ ~foreignForm
         THEN Continue(q0, Enter(q0, Next_("csrf", q0.route)))
         ELSE Respond(q0, q0, onError.status, onError.resp)
    /\ UNCHANGED <<now, ticks, TASKS, COMMENTS, nreq, ids, acceptLog, created, deleted, serial, fresh>>

LogAccept(log, t) == IF t \in DOMAIN log THEN [log EXCEPT ![t] = @ + 1] ELSE (t :> 1) @@ log

\* rateLimiter, up to its await of TASKS.get
RateLimiterGet ==
  \E q0 \in BagToSet(req) :
    /\ q0.pc = "rateLimiter"
    /\ \E ip \in IPs :
         LET key == rateLimitKey(ip) IN
         Continue(q0, [q0 EXCEPT !.pc = "rateLimiter.put",
                                    !.ip = ip,
                                    !.count = KVGet(TASKS, key),
                                    !.ops = Append(@, Op("TASKS", "get", key))])
    /\ UNCHANGED <<now, ticks, TASKS, COMMENTS, nreq, ids, acceptLog, created, deleted, serial, fresh>>

\* Mutant: the rate limiter counts the request before it compares with the limit
RateLimiterPutCountsFirst ==
  \E q0 \in BagToSet(req) :
    /\ q0.pc = "rateLimiter.put"
    /\ LET q == [q0 EXCEPT !.ops = Append(@, Op("TASKS", "put", rateLimitKey(q0.ip)))]
           key == rateLimitKey(q.ip)
           count == IF q.count.t = "null" THEN Number(0) ELSE parseInt(q.count)
       IN  /\ TASKS' = KVPut(TASKS, key, toString(PlusOne(count)), now + window * 1000)
           /\ IF GreaterEq(count, limit)
              THEN /\ Respond(q0, q, 429, JsonError("Too many requests"))
                   /\ UNCHANGED acceptLog
              ELSE /\ acceptLog' = [acceptLog EXCEPT ![q.ip] = LogAccept(@, now)]
                   /\ Continue(q0, Enter(q, Next_("rateLimiter", q.route)))
    /\ UNCHANGED <<now, ticks, COMMENTS, nreq, ids, created, deleted, serial, fresh>>

\* rateLimiter, from the value read to next()
RateLimiterPut ==
  \E q0 \in BagToSet(req) :
    /\ q0.pc = "rateLimiter.put"
    /\ LET q == q0
           key == rateLimitKey(q.ip)
           count == IF q.count.t = "null" THEN Number(0) ELSE parseInt(q.count)
       IN  IF GreaterEq(count, limit)
           THEN /\ Respond(q0, q, 429, JsonError("Too many requests"))
                /\ UNCHANGED <<TASKS, acceptLog>>
           ELSE /\ TASKS' = KVPut(TASKS, key, toString(PlusOne(count)), now + window * 1000)
                /\ acceptLog' = [acceptLog EXCEPT ![q.ip] = LogAccept(@, now)]
                /\ Continue(q0, Enter([q EXCEPT !.ops = Append(@, Op("TASKS", "put", key))],
                                      Next_("rateLimiter", q.route)))
    /\ UNCHANGED <<now, ticks, COMMENTS, nreq, ids, created, deleted, serial, fresh>>

\* zValidator('json', schema)
ZValidator ==
  \E q0 \in BagToSet(req) :
    /\ q0.pc = "zValidator"
    /\ \E body \in Bodies :
         LET q == [q0 EXCEPT !.body = body] IN
         IF SchemaOk(q.route, body)
         THEN Continue(q0, Enter([q EXCEPT !.valid = SchemaParse(q.route, body)], "handler"))
         ELSE Respond(q0, q, 400, ZodError)
    /\ UNCHANGED <<now, ticks, TASKS, COMMENTS, nreq, ids, acceptLog, created, deleted, serial, fresh>>

---------------------------------------------------------------------------
(* The handlers *)

QueryRank(name) ==
    CASE name = "page" -> 1 [] name = "limit" -> 2 [] name = "status" -> 3 [] OTHER -> 4

\* The characters of a text, joined
RECURSIVE Join(_)
Join(chars) == IF chars = <<>> THEN "" ELSE Head(chars) \o Join(Tail(chars))

\* The text of a query value or of a number in a template string
TextOf(text) ==
    CASE text.t = "num" -> NumChars(text.n)
      [] text.t = "nan" -> <<"N", "a", "N">>
      [] text.t = "str" -> text.s
      [] OTHER -> <<"u", "n", "d", "e", "f", "i", "n", "e", "d">>

ParamName(name) ==
    CASE name = "page" -> <<"p", "a", "g", "e">>
      [] name = "limit" -> <<"l", "i", "m", "i", "t">>
      [] name = "status" -> <<"s", "t", "a", "t", "u", "s">>
      [] OTHER -> <<"p", "r", "i", "o", "r", "i", "t", "y">>

\* The query string of a request, its parameters in the order page, limit,
\* status, priority
QueryParam(query, name, sep) ==
    IF name \in DOMAIN query
    THEN sep \o ParamName(name) \o <<"=">>
         \o (IF name \in {"page", "limit"} THEN TextOf(query[name]) ELSE query[name])
    ELSE <<>>
QueryString(query) ==
    LET first(name) == IF \E n \in DOMAIN query : QueryRank(n) < QueryRank(name) THEN <<"&">> ELSE <<"?">>
    IN  QueryParam(query, "page", first("page")) \o QueryParam(query, "limit", first("limit"))
        \o QueryParam(query, "status", first("status")) \o QueryParam(query, "priority", first("priority"))

\* Scheme and host of the deployment (wrangler dev)
Origin == <<"h", "t", "t", "p", ":", "/", "/", "l", "o", "c", "a", "l", "h", "o", "s", "t", ":", "8", "7", "8", "7">>
TasksPath == <<"/", "a", "p", "i", "/", "v", "1", "/", "t", "a", "s", "k", "s">>
CommentsPath == <<"/", "c", "o", "m", "m", "e", "n", "t", "s">>

\* c.req.path
Path(q) ==
    CASE q.route \in {PostTask, ListTasks} -> TasksPath
      [] q.route \in {GetTask, PutTask, DeleteTask} -> TasksPath \o <<"/">> \o q.id
      [] q.route \in {PostComment, ListComments} -> TasksPath \o <<"/">> \o q.id \o CommentsPath
      [] OTHER -> TasksPath \o <<"/">> \o q.id \o CommentsPath \o <<"/">> \o q.cid

\* c.req.url
Url(q) == Origin \o Path(q) \o (IF q.route = ListTasks THEN QueryString(q.query) ELSE <<>>)

\* str.replace(pattern, ''): str without the first occurrence of pattern
RECURSIVE RemoveFirst(_, _)
RemoveFirst(str, pattern) ==
    IF Len(str) < Len(pattern) THEN str
    ELSE IF SubSeq(str, 1, Len(pattern)) = pattern THEN SubSeq(str, Len(pattern) + 1, Len(str))
    ELSE <<Head(str)>> \o RemoveFirst(Tail(str), pattern)

\* Mutant: the parsed record loses its labels
SpreadDropsLabels(text) ==
    IF text.t = "obj" THEN [f \in DOMAIN text.o \ {"labels"} |-> text.o[f]] ELSE EmptyObj

\* JSON.parse of a stored text, spread into an object literal: a number spreads
\* to nothing. (JSON.parse("NaN") throws; the handlers test for it.)
Spread(text) == IF text.t = "obj" THEN text.o ELSE EmptyObj

\* What the clock may do between two Date.now() calls of one synchronous block
ClockSteps == IF ticks < MaxTicks THEN {0, 1} ELSE {0}

\* The task POST /api/v1/tasks builds: createdAt and updatedAt are two calls of
\* Date.now(), at t1 and t2.
NewTask(q, taskId, t1, t2) ==
    [id |-> taskId, title |-> q.valid.title, status |-> q.valid.status,
     priority |-> q.valid.priority, labels |-> q.valid.labels,
     createdAt |-> t1, updatedAt |-> t2,
     links |-> [self |-> Url(q) \o <<"/">> \o taskId,
                comments |-> Url(q) \o <<"/">> \o taskId \o CommentsPath]]

\* POST /api/v1/tasks
PostTaskHandler ==
  \E q0 \in BagToSet(req) :
    /\ q0.pc = "handler"
    /\ q0.route = PostTask
    /\ ids < MaxIds
    /\ \E d \in ClockSteps :
         LET q == q0
             taskId == nanoid(ids + 1)
             task == NewTask(q, taskId, now, now + d)
         IN  /\ now' = now + d
             /\ ticks' = ticks + d
             /\ TASKS' = KVPut(KVExpire(TASKS, now + d), taskId, JsonText(task), NoExpiration)
             /\ COMMENTS' = KVExpire(COMMENTS, now + d)
             /\ created' = (taskId :> task.createdAt) @@ created
             /\ fresh' = (taskId :> task) @@ fresh
             /\ Respond(q0, [q EXCEPT !.ops = Append(@, Op("TASKS", "put", taskId))],
                        201, JsonObj(task))
    /\ ids' = ids + 1
    /\ UNCHANGED <<nreq, acceptLog, deleted, serial>>

\* GET /api/v1/tasks/:id
GetTaskHandler ==
  \E q0 \in BagToSet(req) :
    /\ q0.pc = "handler"
    /\ q0.route = GetTask
    /\ \E id \in PathIds :
       LET q == [q0 EXCEPT !.id = id,
                               !.ops = Append(@, Op("TASKS", "get", id)),
                               !.task = KVGet(TASKS, id)]
           task == q.task
       IN  IF task.t = "null" THEN Respond(q0, q, notFound.status, notFound.resp)
           ELSE IF task.t = "nan" THEN Respond(q0, q, onError.status, onError.resp)
           ELSE Respond(q0, q, 200,
                        JsonObj(("links" :> [self |-> Url(q), comments |-> Url(q) \o CommentsPath])
                                @@ Spread(task)))
    /\ UNCHANGED <<now, ticks, TASKS, COMMENTS, nreq, ids, acceptLog, created, deleted, serial, fresh>>

\* PUT /api/v1/tasks/:id, up to its await of TASKS.get and the test of what it read
PutTaskGet ==
  \E q0 \in BagToSet(req) :
    /\ q0.pc = "handler"
    /\ q0.route = PutTask
    /\ \E id \in PathIds :
       LET q == [q0 EXCEPT !.id = id,
                               !.ops = Append(@, Op("TASKS", "get", id)),
                               !.task = KVGet(TASKS, id)]
       IN  IF q.task.t = "null" THEN Respond(q0, q, notFound.status, notFound.resp)
           ELSE Continue(q0, [q EXCEPT !.pc = "handler.put"])
    /\ UNCHANGED <<now, ticks, TASKS, COMMENTS, nreq, ids, acceptLog, created, deleted, serial, fresh>>

\* Mutant: the merge leaves updatedAt as it was read
MergeTaskStaleUpdatedAt(q, task, updatedFields, t) ==
    ("links" :> [self |-> Url(q), comments |-> Url(q) \o CommentsPath])
    @@ updatedFields @@ Spread(task)

\* { ...JSON.parse(task), ...updatedFields, updatedAt: Date.now(), links }
MergeTask(q, task, updatedFields, t) ==
    ("links" :> [self |-> Url(q), comments |-> Url(q) \o CommentsPath])
    @@ ("updatedAt" :> t) @@ updatedFields @@ Spread(task)

\* PUT /api/v1/tasks/:id, from the merge to the response
PutTaskPut ==
  \E q0 \in BagToSet(req) :
    /\ q0.pc = "handler.put"
    /\ q0.route = PutTask
    /\ LET q == q0 IN
         IF q.task.t = "nan"
         THEN /\ Respond(q0, q, onError.status, onError.resp)
              /\ UNCHANGED <<TASKS, fresh>>
         ELSE LET updatedTask == MergeTask(q, q.task, q.valid, now) IN
              /\ TASKS' = KVPut(TASKS, q.id, JsonText(updatedTask), NoExpiration)
              /\ fresh' = Without(fresh, q.id)
              /\ Respond(q0, [q EXCEPT !.ops = Append(@, Op("TASKS", "put", q.id))],
                         200, JsonObj(updatedTask))
    /\ UNCHANGED <<now, ticks, COMMENTS, nreq, ids, acceptLog, created, deleted, serial>>

\* Mutant: DELETE answers 404 when there is nothing to delete
DeleteTaskHandlerNotFound ==
  \E q0 \in BagToSet(req) :
    /\ q0.pc = "handler"
    /\ q0.route = DeleteTask
    /\ \E id \in PathIds :
         LET q == [q0 EXCEPT !.id = id, !.ops = Append(@, Op("TASKS", "delete", id))] IN
         /\ TASKS' = KVDelete(TASKS, id)
         /\ deleted' = deleted (+) SetToBag({id})
         /\ fresh' = Without(fresh, id)
         /\ IF id \in DOMAIN TASKS
            THEN Respond(q0, q, 200, JsonMessage("Task deleted successfully"))
            ELSE Respond(q0, q, notFound.status, notFound.resp)
    /\ UNCHANGED <<now, ticks, COMMENTS, nreq, ids, acceptLog, created, serial>>

\* Mutant: DELETE of a task deletes the comments of the task as well
DeleteTaskHandlerCascade ==
  \E q0 \in BagToSet(req) :
    /\ q0.pc = "handler"
    /\ q0.route = DeleteTask
    /\ \E id \in PathIds :
         /\ TASKS' = KVDelete(TASKS, id)
         /\ COMMENTS' = [k \in {k \in DOMAIN COMMENTS : \A cid \in CommentIds : k # commentKey(id, cid)}
                            |-> COMMENTS[k]]
         /\ deleted' = deleted (+) SetToBag({id})
         /\ fresh' = Without(fresh, id)
         /\ Respond(q0, [q0 EXCEPT !.id = id, !.ops = Append(@, Op("TASKS", "delete", id))],
                    200, JsonMessage("Task deleted successfully"))
    /\ UNCHANGED <<now, ticks, nreq, ids, acceptLog, created, serial>>

\* DELETE /api/v1/tasks/:id
DeleteTaskHandler ==
  \E q0 \in BagToSet(req) :
    /\ q0.pc = "handler"
    /\ q0.route = DeleteTask
    /\ \E id \in PathIds :
         /\ TASKS' = KVDelete(TASKS, id)
         /\ deleted' = deleted (+) SetToBag({id})
         /\ fresh' = Without(fresh, id)
         /\ Respond(q0, [q0 EXCEPT !.id = id, !.ops = Append(@, Op("TASKS", "delete", id))],
                    200, JsonMessage("Task deleted successfully"))
    /\ UNCHANGED <<now, ticks, COMMENTS, nreq, ids, acceptLog, created, serial>>

\* POST /api/v1/tasks/:id/comments, up to its await of TASKS.get and the test
PostCommentGet ==
  \E q0 \in BagToSet(req) :
    /\ q0.pc = "handler"
    /\ q0.route = PostComment
    /\ \E id \in PathIds :
       LET q == [q0 EXCEPT !.id = id,
                               !.ops = Append(@, Op("TASKS", "get", id)),
                               !.task = KVGet(TASKS, id)]
       IN  IF q.task.t = "null" THEN Respond(q0, q, notFound.status, notFound.resp)
           ELSE Continue(q0, [q EXCEPT !.pc = "handler.put"])
    /\ UNCHANGED <<now, ticks, TASKS, COMMENTS, nreq, ids, acceptLog, created, deleted, serial, fresh>>

NewComment(q, commentId, t1, t2) ==
    [id |-> commentId, taskId |-> q.id, content |-> q.valid.content,
     createdAt |-> t1, updatedAt |-> t2,
     links |-> [self |-> Url(q) \o <<"/">> \o commentId, task |-> RemoveFirst(Url(q), CommentsPath)]]

\* POST /api/v1/tasks/:id/comments, from nanoid() to the response
PostCommentPut ==
  \E q0 \in BagToSet(req) :
    /\ q0.pc = "handler.put"
    /\ q0.route = PostComment
    /\ ids < MaxIds
    /\ \E d \in ClockSteps :
         LET q == q0
             commentId == nanoid(ids + 1)
             comment == NewComment(q, commentId, now, now + d)
             key == commentKey(q.id, commentId)
         IN  /\ now' = now + d
             /\ ticks' = ticks + d
             /\ TASKS' = KVExpire(TASKS, now + d)
             /\ COMMENTS' = KVPut(KVExpire(COMMENTS, now + d), key, JsonText(comment), NoExpiration)
             /\ Respond(q0, [q EXCEPT !.ops = Append(@, Op("COMMENTS", "put", key))],
                        201, JsonObj(comment))
    /\ ids' = ids + 1
    /\ UNCHANGED <<nreq, acceptLog, created, deleted, serial, fresh>>

\* DELETE /api/v1/tasks/:id/comments/:commentId
DeleteCommentHandler ==
  \E q0 \in BagToSet(req) :
    /\ q0.pc = "handler"
    /\ q0.route = DeleteComment
    /\ \E id \in PathIds, cid \in CommentIds :
         LET key == commentKey(id, cid) IN
         /\ COMMENTS' = KVDelete(COMMENTS, key)
         /\ Respond(q0, [q0 EXCEPT !.id = id, !.cid = cid,
                                      !.ops = Append(@, Op("COMMENTS", "delete", key))],
                    200, JsonMessage("Comment deleted successfully"))
    /\ UNCHANGED <<now, ticks, TASKS, nreq, ids, acceptLog, created, deleted, serial, fresh>>


---------------------------------------------------------------------------
(* The list handlers and the comment update *)

\* The keys of the two namespaces in the order KV lists them (lexicographic)
TaskKeyOrder == [k \in 1..MaxIds |-> nanoid(k)] \o <<rateLimitKey(ClientIP)>>
CommentKeyOrder ==
    [n \in 1..(Len(TaskKeyOrder) * MaxIds) |->
        commentKey(TaskKeyOrder[((n - 1) \div MaxIds) + 1], nanoid(((n - 1) % MaxIds) + 1))]

SortedKeys(store, order) == SelectSeq(order, LAMBDA k : k \in DOMAIN store)

\* key.startsWith(prefix)
StartsWith(key, prefix) == Len(prefix) <= Len(key) /\ SubSeq(key, 1, Len(prefix)) = prefix

Min(a, b) == IF a <= b THEN a ELSE b

\* What KV list may return. With a limit of at least 1 and no cursor: the first
\* `limit` keys with the prefix. The handler passes page and limit unchecked, so
\* list may be called with a limit that is zero, negative or NaN, or with an
\* offset as cursor, which is no cursor KV ever issued: list then throws or
\* returns some run of the keys, depending on the KV implementation.
KVList(store, order, prefix, limitNumber, hasCursor) ==
    LET all == SortedKeys(store, order)
        sorted == IF prefix = <<>> THEN all ELSE SelectSeq(all, LAMBDA k : StartsWith(k, prefix))
        n == Len(sorted)
    IN  IF ~limitNumber.nan /\ limitNumber.n >= 1 /\ ~hasCursor
        THEN {[throws |-> FALSE, keys |-> SubSeq(sorted, 1, Min(limitNumber.n, n))]}
        ELSE {[throws |-> TRUE, keys |-> <<>>]} \cup
             {[throws |-> FALSE, keys |-> SubSeq(sorted, a, b)] :
                 <<a, b>> \in {ab \in (1..(n + 1)) \X (0..n) :
                                 /\ ab[2] >= ab[1] - 1
                                 /\ (~limitNumber.nan /\ limitNumber.n >= 1) =>
                                        ab[2] - ab[1] + 1 <= limitNumber.n}}

\* The default KV list limit
KVListDefaultLimit == Number(1000)

\* The query values a client sends: absent, or one of a few texts ("abc",
\* "2abc"; "1", "0")
PageValues ==
    {EmptyObj, "page" :> StrText(<<"a", "b", "c">>), "page" :> StrText(<<"2", "a", "b", "c">>)}
LimitValues == {EmptyObj, "limit" :> StrText(<<"1">>), "limit" :> StrText(<<"0">>)}
StatusValues == {EmptyObj, "status" :> <<"d", "o", "n", "e">>, "status" :> <<>>}
PriorityValues == {EmptyObj, "priority" :> <<"h", "i", "g", "h">>}

\* const { page = '1', limit = '10' } = c.req.query(); parseInt(page), parseInt(limit)
pageNumber(query) == parseInt(IF "page" \in DOMAIN query THEN query.page ELSE StrText(<<"1">>))
limitNumber(query) == parseInt(IF "limit" \in DOMAIN query THEN query.limit ELSE StrText(<<"1", "0">>))

\* (pageNumber - 1) * limitNumber
offset(query) ==
    IF pageNumber(query).nan \/ limitNumber(query).nan THEN NaN
    ELSE Number((pageNumber(query).n - 1) * limitNumber(query).n)

\* x > k in JavaScript: NaN > k is false
Greater(x, k) == ~x.nan /\ x.n > k

\* A number in the JSON of a response: NaN is serialised as null
JsonNumber(x) == IF x.nan THEN Null ELSE NumText(x.n)

\* (task as { id: string }).id in a template string
IdOf(text) ==
    IF text.t = "obj" /\ "id" \in DOMAIN text.o THEN text.o.id ELSE <<"u", "n", "d", "e", "f", "i", "n", "e", "d">>

\* One element of tasks: { ...task, links }. task is what get(key, 'json') gave:
\* an object, or a number when the key holds a rate-limit counter.
TaskEntry(path, text) ==
    ("links" :> [self |-> path \o <<"/">> \o IdOf(text),
                 comments |-> path \o <<"/">> \o IdOf(text) \o CommentsPath])
    @@ Spread(text)

\* The filter: if (status && task.status !== status) return false; likewise priority
KeepTask(task, query) ==
    /\ ~(("status" \in DOMAIN query /\ query.status # <<>>)
          /\ ~("status" \in DOMAIN task /\ task.status = Join(query.status)))
    /\ ~(("priority" \in DOMAIN query /\ query.priority # <<>>)
          /\ ~("priority" \in DOMAIN task /\ task.priority = Join(query.priority)))

\* `?page=` and `&limit=` of the links
PageParam == <<"?", "p", "a", "g", "e", "=">>
LimitParam == <<"&", "l", "i", "m", "i", "t", "=">>

\* Mutant: metadata.total counts the tasks fetched for the page
ListTasksResponseTotalOfPage(q, tasks, filteredTasks) ==
    [tasks |-> filteredTasks,
     metadata |-> [total |-> Len(tasks),
                   page |-> JsonNumber(pageNumber(q.query)),
                   limit |-> JsonNumber(limitNumber(q.query))],
     links |-> [self |-> Url(q),
                next |-> JsonString(Url(q) \o PageParam \o TextOf(toString(PlusOne(pageNumber(q.query))))
                                     \o LimitParam \o TextOf(toString(limitNumber(q.query)))),
                prev |-> IF Greater(pageNumber(q.query), 1)
                         THEN JsonString(Url(q) \o PageParam \o NumChars(pageNumber(q.query).n - 1)
                                             \o LimitParam \o TextOf(toString(limitNumber(q.query))))
                         ELSE Null]]

\* The response of GET /api/v1/tasks
ListTasksResponse(q, tasks, filteredTasks) ==
    [tasks |-> filteredTasks,
     metadata |-> [total |-> Len(filteredTasks),
                   page |-> JsonNumber(pageNumber(q.query)),
                   limit |-> JsonNumber(limitNumber(q.query))],
     links |-> [self |-> Url(q),
                next |-> JsonString(Url(q) \o PageParam \o TextOf(toString(PlusOne(pageNumber(q.query))))
                                     \o LimitParam \o TextOf(toString(limitNumber(q.query)))),
                prev |-> IF Greater(pageNumber(q.query), 1)
                         THEN JsonString(Url(q) \o PageParam \o NumChars(pageNumber(q.query).n - 1)
                                             \o LimitParam \o TextOf(toString(limitNumber(q.query))))
                         ELSE Null]]

\* The listed keys whose get has not been answered yet. keys.map calls the get
\* of every listed key at once, when list has answered; the store answers them
\* one at a time, in any order, and other requests run in between.
Pending(q) == (1..Len(q.keys)) \ DOMAIN q.texts

\* GET /api/v1/tasks, once Promise.all has every element: the filter and the
\* response
ListTasksFinish(q0, q1) ==
    \E status \in StatusValues, priority \in PriorityValues :
        LET q == [q1 EXCEPT !.query = @ @@ status @@ priority]
            tasks == [i \in 1..Len(q.keys) |-> TaskEntry(Path(q), q.texts[i])]
            filteredTasks == SelectSeq(tasks, LAMBDA task : KeepTask(task, q.query))
        IN  Respond(q0, q, 200, JsonObj(ListTasksResponse(q, tasks, filteredTasks)))

\* GET /api/v1/tasks, from the query to the calls of TASKS.get for the listed
\* keys; with no key listed Promise.all has nothing to wait for.
ListTasksList ==
  \E q0 \in BagToSet(req) :
    /\ q0.pc = "handler"
    /\ q0.route = ListTasks
    /\ \E page \in PageValues, lim \in LimitValues :
         LET query == page @@ lim
             q == [q0 EXCEPT !.query = query, !.ops = Append(@, Op("TASKS", "list", <<>>))]
         IN  \E out \in KVList(TASKS, TaskKeyOrder, <<>>, limitNumber(query), Greater(offset(query), 0)) :
               IF out.throws
               THEN Respond(q0, q, onError.status, onError.resp)
               ELSE IF out.keys = <<>>
               THEN ListTasksFinish(q0, q)
               ELSE Continue(q0, [q EXCEPT !.pc = "handler.get", !.keys = out.keys,
                           !.ops = @ \o [i \in 1..Len(out.keys) |-> Op("TASKS", "get", out.keys[i])]])
    /\ UNCHANGED <<now, ticks, TASKS, COMMENTS, nreq, ids, acceptLog, created, deleted, serial, fresh>>

\* GET /api/v1/tasks: the store answers the get of one listed key. A key that is
\* gone by now gives null and a counter text "NaN" is no JSON: both throw, and
\* Promise.all rejects at once. The last answer completes Promise.all.
ListTasksGet ==
  \E q0 \in BagToSet(req) :
    /\ q0.pc = "handler.get"
    /\ q0.route = ListTasks
    /\ \E i \in Pending(q0) :
         LET task == KVGet(TASKS, q0.keys[i])
             q == [q0 EXCEPT !.texts = (i :> task) @@ @]
         IN  IF task.t \in {"null", "nan"} THEN Respond(q0, q, onError.status, onError.resp)
             ELSE IF Pending(q) = {} THEN ListTasksFinish(q0, q)
             ELSE Continue(q0, q)
    /\ UNCHANGED <<now, ticks, TASKS, COMMENTS, nreq, ids, acceptLog, created, deleted, serial, fresh>>

\* One element of comments: { ...comment, links }
CommentEntry(q, text) ==
    ("links" :> [self |-> Url(q) \o <<"/">> \o IdOf(text), task |-> RemoveFirst(Url(q), CommentsPath)])
    @@ Spread(text)

\* GET /api/v1/tasks/:id/comments, once Promise.all has every element
ListCommentsFinish(q0, q) ==
    LET comments == [i \in 1..Len(q.keys) |-> CommentEntry(q, q.texts[i])]
    IN  Respond(q0, q, 200,
                JsonObj([comments |-> comments,
                         metadata |-> [total |-> Len(comments)],
                         links |-> [self |-> Url(q), task |-> RemoveFirst(Url(q), CommentsPath)]]))

\* GET /api/v1/tasks/:id/comments, up to the calls of COMMENTS.get for the
\* listed keys
ListCommentsList ==
  \E q0 \in BagToSet(req) :
    /\ q0.pc = "handler"
    /\ q0.route = ListComments
    /\ \E id \in CommentListIds :
         LET q == [q0 EXCEPT !.id = id, !.ops = Append(@, Op("COMMENTS", "list", commentKey(id, <<>>)))]
         IN  \E out \in KVList(COMMENTS, CommentKeyOrder, commentKey(id, <<>>), KVListDefaultLimit, FALSE) :
               IF out.keys = <<>>
               THEN ListCommentsFinish(q0, q)
               ELSE Continue(q0, [q EXCEPT !.pc = "handler.get", !.keys = out.keys,
                           !.ops = @ \o [i \in 1..Len(out.keys) |-> Op("COMMENTS", "get", out.keys[i])]])
    /\ UNCHANGED <<now, ticks, TASKS, COMMENTS, nreq, ids, acceptLog, created, deleted, serial, fresh>>

\* GET /api/v1/tasks/:id/comments: the store answers the get of one listed key.
\* A key that is gone by now gives null, and reading its id throws. The last
\* answer completes Promise.all.
ListCommentsGet ==
  \E q0 \in BagToSet(req) :
    /\ q0.pc = "handler.get"
    /\ q0.route = ListComments
    /\ \E i \in Pending(q0) :
         LET comment == KVGet(COMMENTS, q0.keys[i])
             q == [q0 EXCEPT !.texts = (i :> comment) @@ @]
         IN  IF comment.t = "null" THEN Respond(q0, q, onError.status, onError.resp)
             ELSE IF Pending(q) = {} THEN ListCommentsFinish(q0, q)
             ELSE Continue(q0, q)
    /\ UNCHANGED <<now, ticks, TASKS, COMMENTS, nreq, ids, acceptLog, created, deleted, serial, fresh>>

\* PUT /api/v1/tasks/:id/comments/:commentId, up to its await of COMMENTS.get
\* and the test of what it read
PutCommentGet ==
  \E q0 \in BagToSet(req) :
    /\ q0.pc = "handler"
    /\ q0.route = PutComment
    /\ \E id \in PathIds, cid \in CommentIds :
       LET key == commentKey(id, cid)
           q == [q0 EXCEPT !.id = id, !.cid = cid,
                           !.ops = Append(@, Op("COMMENTS", "get", key)),
                           !.task = KVGet(COMMENTS, key)]
       IN  IF q.task.t = "null" THEN Respond(q0, q, notFound.status, notFound.resp)
           ELSE Continue(q0, [q EXCEPT !.pc = "handler.put"])
    /\ UNCHANGED <<now, ticks, TASKS, COMMENTS, nreq, ids, acceptLog, created, deleted, serial, fresh>>

\* { ...comment, ...updatedFields, updatedAt: Date.now(), links }
MergeComment(q, comment, updatedFields, t) ==
    ("links" :> [self |-> Url(q), task |-> RemoveFirst(Url(q), CommentsPath \o <<"/">> \o q.cid)])
    @@ ("updatedAt" :> t) @@ updatedFields @@ Spread(comment)

\* PUT /api/v1/tasks/:id/comments/:commentId, from the merge to the response
PutCommentPut ==
  \E q0 \in BagToSet(req) :
    /\ q0.pc = "handler.put"
    /\ q0.route = PutComment
    /\ LET q == q0
           key == commentKey(q.id, q.cid)
           updatedComment == MergeComment(q, q.task, q.valid, now)
       IN  /\ COMMENTS' = KVPut(COMMENTS, key, JsonText(updatedComment), NoExpiration)
           /\ Respond(q0, [q EXCEPT !.ops = Append(@, Op("COMMENTS", "put", key))],
                      200, JsonObj(updatedComment))
    /\ UNCHANGED <<now, ticks, TASKS, nreq, ids, acceptLog, created, deleted, serial, fresh>>

\* A store operation fails: the await throws, and the error is handed to app.onError
\* by the dispatch of the stage that threw; it does not pass through the catch of
\* the jwt wrapper, which has awaited jwt's own check only.
StoreThrows ==
  \E q0 \in BagToSet(req) :
    /\ \/ q0.pc = "rateLimiter"
       \/ q0.pc = "rateLimiter.put"
            /\ ~GreaterEq(IF q0.count.t = "null" THEN Number(0) ELSE parseInt(q0.count), limit)
       \/ q0.pc = "handler"
       \/ q0.pc = "handler.put" /\ (q0.route = PutTask => q0.task.t # "nan")
       \/ q0.pc = "handler.get"
    /\ LET store == IF q0.pc \in {"rateLimiter", "rateLimiter.put"}
                       \/ q0.route \in {PostTask, GetTask, PutTask, DeleteTask, ListTasks}
                       \/ (q0.route = PostComment /\ q0.pc = "handler")
                    THEN "TASKS" ELSE "COMMENTS"
       IN  Respond(q0, [q0 EXCEPT !.ops = Append(@, Op(store, "throws", <<>>))],
                   onError.status, onError.resp)
    /\ UNCHANGED <<now, ticks, TASKS, COMMENTS, nreq, ids, acceptLog, created, deleted, serial, fresh>>

\* A request to one of the task list routes arrives
ReceiveList ==
    /\ nreq < MaxRequests
    /\ \E route \in ListRoutes :
         /\ sent' = IdleReq
         /\ req' = req (+) SetToBag({Enter(Enter([IdleReq EXCEPT !.route = route], "cors"), Next_("cors", route))})
    /\ nreq' = nreq + 1
    /\ serial' = (serial /\ req = EmptyBag)
    /\ UNCHANGED <<now, ticks, TASKS, COMMENTS, ids, acceptLog, created, deleted, fresh>>

\* A request to one of the comment list routes arrives
ReceiveComments ==
    /\ nreq < MaxRequests
    /\ \E route \in CommentRoutes :
         /\ sent' = IdleReq
         /\ req' = req (+) SetToBag({Enter(Enter([IdleReq EXCEPT !.route = route], "cors"), Next_("cors", route))})
    /\ nreq' = nreq + 1
    /\ serial' = (serial /\ req = EmptyBag)
    /\ UNCHANGED <<now, ticks, TASKS, COMMENTS, ids, acceptLog, created, deleted, fresh>>

---------------------------------------------------------------------------
(* The initial states: a fresh deployment, or one in which the client has   *)
(* created a task and a comment on it and then read the task, c requests   *)
(* in all, every one of them in millisecond 0.                             *)

StartCounts == {0, 2, limit - 1}

EmptyStore == [k \in {} |-> [v |-> Null, exp |-> NoExpiration]]
EmptyLog == [t \in {} |-> 0]

Init ==
    /\ now = 0
    /\ ticks = 0
    /\ req = EmptyBag
    /\ sent = IdleReq
    /\ nreq = 0
    /\ deleted = EmptyBag
    /\ serial = TRUE
    /\ \E c \in StartCounts :
         IF c = 0
         THEN /\ TASKS = EmptyStore
              /\ COMMENTS = EmptyStore
              /\ ids = 0
              /\ created = [k \in {} |-> 0]
              /\ fresh = [k \in {} |-> EmptyObj]
              /\ acceptLog = [ip \in IPs |-> EmptyLog]
         ELSE LET post == [IdleReq EXCEPT !.route = PostTask, !.valid = taskSchema([title |-> JString("a")])]
                  task == NewTask(post, nanoid(1), 0, 0)
                  postc == [IdleReq EXCEPT !.route = PostComment, !.id = task.id,
                                           !.valid = commentSchema([content |-> JString("hi")])]
                  comment == NewComment(postc, nanoid(2), 0, 0)
              IN  /\ TASKS = KVPut(KVPut(EmptyStore, task.id, JsonText(task), NoExpiration),
                                   rateLimitKey(ClientIP), NumText(c), window * 1000)
                  /\ COMMENTS = KVPut(EmptyStore, commentKey(task.id, comment.id),
                                      JsonText(comment), NoExpiration)
                  /\ ids = 2
                  /\ created = (task.id :> 0)
                  /\ fresh = (task.id :> task)
                  /\ acceptLog = [ip \in IPs |-> (0 :> c)]

---------------------------------------------------------------------------
(* The environment *)

TickSteps == {1, window * 1000}

\* Time passes; keys past their expiration disappear.
Tick ==
    /\ ticks < MaxTicks
    /\ \E d \in TickSteps :
         /\ now' = now + d
         /\ TASKS' = KVExpire(TASKS, now + d)
         /\ COMMENTS' = KVExpire(COMMENTS, now + d)
    /\ ticks' = ticks + 1
    /\ sent' = IdleReq
    /\ UNCHANGED <<req, nreq, ids, acceptLog, created, deleted, serial, fresh>>

Next ==
    \/ Tick
    \/ Receive
    \/ Jwt
    \/ Csrf
    \/ RateLimiterGet
    \/ RateLimiterPut
    \/ ZValidator
    \/ PostTaskHandler
    \/ GetTaskHandler
    \/ PutTaskGet
    \/ PutTaskPut
    \/ DeleteTaskHandler
    \/ PostCommentGet
    \/ PostCommentPut
    \/ DeleteCommentHandler

Spec == Init /\ [][Next]_vars

---------------------------------------------------------------------------
(* The task list with the update and the delete of tasks, against a store   *)
(* that may fail, within one millisecond. The initial state: the client has *)
(* created two tasks, the second one done and of high priority, and a       *)
(* comment on the first.                                                    *)

ListInit ==
    /\ now = 0
    /\ ticks = 0
    /\ req = EmptyBag
    /\ sent = IdleReq
    /\ nreq = 0
    /\ deleted = EmptyBag
    /\ serial = TRUE
    /\ LET post1 == [IdleReq EXCEPT !.route = PostTask, !.valid = taskSchema([title |-> JString("a")])]
           post2 == [IdleReq EXCEPT !.route = PostTask,
                                    !.valid = taskSchema([title |-> JString("b"), status |-> JString("done"),
                                                          priority |-> JString("high")])]
           task1 == NewTask(post1, nanoid(1), 0, 0)
           task2 == NewTask(post2, nanoid(2), 0, 0)
           postc == [IdleReq EXCEPT !.route = PostComment, !.id = task1.id,
                                    !.valid = commentSchema([content |-> JString("note")])]
           comment == NewComment(postc, nanoid(3), 0, 0)
       IN  /\ TASKS = KVPut(KVPut(KVPut(EmptyStore, task1.id, JsonText(task1), NoExpiration),
                                  task2.id, JsonText(task2), NoExpiration),
                            rateLimitKey(ClientIP), NumText(3), window * 1000)
           /\ COMMENTS = KVPut(EmptyStore, commentKey(task1.id, comment.id),
                               JsonText(comment), NoExpiration)
           /\ ids = 3
           /\ created = (task1.id :> 0) @@ (task2.id :> 0)
           /\ fresh = (task1.id :> task1) @@ (task2.id :> task2)
           /\ acceptLog = [ip \in IPs |-> (0 :> 3)]

ListNext ==
    \/ ReceiveList
    \/ Jwt
    \/ Csrf
    \/ RateLimiterGet
    \/ RateLimiterPut
    \/ ZValidator
    \/ StoreThrows
    \/ ListTasksList
    \/ ListTasksGet
    \/ PutTaskGet
    \/ PutTaskPut
    \/ DeleteTaskHandler

ListSpec == ListInit /\ [][ListNext]_vars

---------------------------------------------------------------------------
(* The comment list with the update and the delete of comments and the      *)
(* delete of tasks, within one millisecond. The initial state: the client   *)
(* has created a task and two comments on it.                               *)

CommentInit ==
    /\ now = 0
    /\ ticks = 0
    /\ req = EmptyBag
    /\ sent = IdleReq
    /\ nreq = 0
    /\ deleted = EmptyBag
    /\ serial = TRUE
    /\ LET post == [IdleReq EXCEPT !.route = PostTask, !.valid = taskSchema([title |-> JString("a")])]
           task == NewTask(post, nanoid(1), 0, 0)
           postc1 == [IdleReq EXCEPT !.route = PostComment, !.id = task.id,
                                     !.valid = commentSchema([content |-> JString("note")])]
           postc2 == [IdleReq EXCEPT !.route = PostComment, !.id = task.id,
                                     !.valid = commentSchema([content |-> JString("hi")])]
           comment1 == NewComment(postc1, nanoid(2), 0, 0)
           comment2 == NewComment(postc2, nanoid(3), 0, 0)
       IN  /\ TASKS = KVPut(KVPut(EmptyStore, task.id, JsonText(task), NoExpiration),
                            rateLimitKey(ClientIP), NumText(3), window * 1000)
           /\ COMMENTS = KVPut(KVPut(EmptyStore, commentKey(task.id, comment1.id),
                                     JsonText(comment1), NoExpiration),
                               commentKey(task.id, comment2.id), JsonText(comment2), NoExpiration)
           /\ ids = 3
           /\ created = (task.id :> 0)
           /\ fresh = (task.id :> task)
           /\ acceptLog = [ip \in IPs |-> (0 :> 3)]

CommentNext ==
    \/ ReceiveComments
    \/ Jwt
    \/ Csrf
    \/ RateLimiterGet
    \/ RateLimiterPut
    \/ ZValidator
    \/ ListCommentsList
    \/ ListCommentsGet
    \/ PutCommentGet
    \/ PutCommentPut
    \/ DeleteTaskHandler
    \/ DeleteCommentHandler

CommentSpec == CommentInit /\ [][CommentNext]_vars

---------------------------------------------------------------------------
(* Vocabulary of the properties *)

\* The last step answered a request: sent is that request, with its response.
Answered == sent.pc = "done"

\* The handler of the answered request ran (the rate limiter passed it on).
HandlerRan == \E i \in 1..Len(sent.stages) : sent.stages[i] = "handler"

RECURSIVE SumLog(_, _)
SumLog(log, S) ==
    IF S = {} THEN 0
    ELSE LET u == CHOOSE u \in S : TRUE IN log[u] + SumLog(log, S \ {u})

\* The requests of one IP the rate limiter passed on in the 60 seconds from t
WindowCount(log, t) == SumLog(log, {u \in DOMAIN log : t <= u /\ u < t + window * 1000})

WithinLimit == \A ip \in IPs : \A t \in DOMAIN acceptLog[ip] : WindowCount(acceptLog[ip], t) <= limit

IsPrefix(s, t) == Len(s) <= Len(t) /\ \A i \in 1..Len(s) : s[i] = t[i]

\* The stages of a route, in the order the specification gives
StageOrder(route) ==
    IF HasValidator(route)
    THEN <<"cors", "jwt", "csrf", "rateLimiter", "zValidator", "handler">>
    ELSE <<"cors", "jwt", "csrf", "rateLimiter", "handler">>

\* The objects of the task store
IsObj(store, k) == k \in DOMAIN store /\ store[k].v.t = "obj"

---------------------------------------------------------------------------
(* Properties *)

\* C1: for every client IP and every interleaving of requests, the rate limiter
\* passes on at most 100 requests of that IP within any rolling 60-second window.
C1_AtMostLimitPerWindow == WithinLimit

\* C2: requests processed one after another: after 100 accepted within 60 seconds
\* the next is answered 429; a rejected request neither writes the counter nor
\* extends its expiry, so a request is rejected only while an accepted one is less
\* than 60 seconds old.
C2_SequentialLimit ==
    /\ serial => WithinLimit
    /\ (Answered /\ sent.status = 429) =>
          /\ \A i \in 1..Len(sent.ops) : sent.ops[i].op = "get"
          /\ serial => \E t \in DOMAIN acceptLog[sent.ip] : now < t + window * 1000

\* C3: the stages of every request run in the order cors, jwt, csrf, rateLimiter,
\* zValidator, handler, and a failure stops the later ones: a 401 has touched no
\* store, a request refused by csrf has touched no store, a 429 ran no validator
\* and no handler.
C3_StagesInOrder ==
    /\ \A q \in BagToSet(req) : IsPrefix(q.stages, StageOrder(q.route))
    /\ Answered =>
          /\ IsPrefix(sent.stages, StageOrder(sent.route))
          /\ sent.status = 401 => (sent.stages = <<"cors", "jwt">> /\ sent.ops = <<>>)
          /\ sent.stages = <<"cors", "jwt", "csrf">> => sent.ops = <<>>
          /\ sent.status = 429 => sent.stages = <<"cors", "jwt", "csrf", "rateLimiter">>
          /\ Len(sent.ops) > 0 => Len(sent.stages) >= 4

\* C3 witness: a request passed jwt and csrf and was answered 429 by the rate limiter.
C3_Witness ==
    Answered /\ sent.status = 429 /\ sent.stages = <<"cors", "jwt", "csrf", "rateLimiter">>

\* C4, as claimed: a request answered 400 or 429 has performed no operation on
\* either store.
C4_NoStoreOperation ==
    (Answered /\ sent.status \in {400, 429}) => sent.ops = <<>>

\* C4, amended: a request answered 400 or 429 has run no handler and has touched
\* nothing but its own rate-limit counter in TASKS: a 429 only read it, a 400 read
\* and incremented it.
C4_OnlyCounterTouched ==
    (Answered /\ sent.status \in {400, 429}) =>
        /\ ~HandlerRan
        /\ \A i \in 1..Len(sent.ops) :
              /\ sent.ops[i].store = "TASKS"
              /\ sent.ops[i].key = rateLimitKey(sent.ip)
        /\ sent.status = 429 => sent.ops = <<Op("TASKS", "get", rateLimitKey(sent.ip))>>
        /\ sent.status = 400 => sent.ops = <<Op("TASKS", "get", rateLimitKey(sent.ip)),
                                             Op("TASKS", "put", rateLimitKey(sent.ip))>>

\* C4 witness: a body failed validation after the rate limiter had counted the request.
C4_Witness == Answered /\ sent.status = 400 /\ Len(sent.ops) = 2

\* C5: a valid POST /api/v1/tasks body that sets only title yields, in the 201
\* response and in the store, status todo, priority medium, no labels and
\* createdAt equal to updatedAt, whatever the clock does meanwhile.
C5_CreateDefaults ==
    (Answered /\ sent.route = PostTask /\ sent.status = 201 /\ DOMAIN sent.body = {"title"}) =>
        LET task == sent.resp.obj IN
        /\ task.status = "todo"
        /\ task.priority = "medium"
        /\ task.labels = <<>>
        /\ task.createdAt = task.updatedAt
        /\ KVGet(TASKS, task.id) = JsonText(task)

\* C6: every record of the task store is stored under the key equal to its id, and
\* its id and createdAt are those of its creation.
C6_IdAndCreatedAtKept ==
    \A k \in DOMAIN TASKS :
        IsObj(TASKS, k) =>
            LET task == TASKS[k].v.o IN
            /\ "id" \in DOMAIN task
            /\ task.id = k
            /\ k \in DOMAIN created
            /\ task.createdAt = created[k]

\* The step answers a PUT /api/v1/tasks/:id with 200: it has written the task.
PutWrote == sent'.pc = "done" /\ sent'.route = PutTask /\ sent'.status = 200

\* The step answers an accepted DELETE /api/v1/tasks/:id
DeleteTaskAnswered == sent'.pc = "done" /\ sent'.route = DeleteTask /\ HandlerRan'

\* The step answers an accepted DELETE /api/v1/tasks/:id/comments/:commentId
DeleteCommentAnswered == sent'.pc = "done" /\ sent'.route = DeleteComment /\ HandlerRan'

HasField(store, k, f) == IsObj(store, k) /\ f \in DOMAIN store[k].v.o

\* C7, as claimed: each successful PUT of a task leaves the record with an updatedAt
\* strictly greater than the updatedAt stored immediately before its write.
C7_UpdatedAtStrictlyIncreases ==
    [][ (PutWrote /\ sent'.id \in DOMAIN created /\ HasField(TASKS, sent'.id, "updatedAt")) =>
            TASKS'[sent'.id].v.o.updatedAt > TASKS[sent'.id].v.o.updatedAt ]_vars

\* C7, amended: each successful PUT leaves the record with updatedAt equal to the
\* clock read in that PUT, which is never smaller than the updatedAt stored
\* immediately before its write nor than the one the PUT read.
C7_UpdatedAtIsClock ==
    [][ PutWrote =>
            /\ HasField(TASKS', sent'.id, "updatedAt")
            /\ TASKS'[sent'.id].v.o.updatedAt = now'
            /\ HasField(TASKS, sent'.id, "updatedAt") =>
                  TASKS'[sent'.id].v.o.updatedAt >= TASKS[sent'.id].v.o.updatedAt
            /\ "updatedAt" \in DOMAIN Spread(sent'.task) =>
                  TASKS'[sent'.id].v.o.updatedAt >= sent'.task.o.updatedAt ]_vars

\* C7 witness: a PUT has raised the updatedAt of a task.
C7_Witness ==
    /\ Answered /\ sent.route = PutTask /\ sent.status = 200
    /\ "updatedAt" \in DOMAIN Spread(sent.task)
    /\ sent.resp.obj.updatedAt > sent.task.o.updatedAt
    /\ KVGet(TASKS, sent.id) = JsonText(sent.resp.obj)

\* C8, as claimed: after a successful PUT of a task every task field absent from the
\* body has the value it had in the store immediately before that PUT's write.
C8_KeepsStoredFields ==
    [][ (PutWrote /\ sent'.id \in DOMAIN created) =>
            \A f \in TaskFields \ DOMAIN sent'.body :
                HasField(TASKS, sent'.id, f) =>
                    /\ f \in DOMAIN TASKS'[sent'.id].v.o
                    /\ TASKS'[sent'.id].v.o[f] = TASKS[sent'.id].v.o[f] ]_vars

\* C8, amended: after a successful PUT every task field absent from the body has
\* the value it had in the record that PUT read; that is the value stored
\* immediately before the write when the record was not written in between.
C8_KeepsReadFields ==
    [][ PutWrote =>
          /\ IsObj(TASKS', sent'.id)
          /\ \A f \in TaskFields \ DOMAIN sent'.body :
                /\ f \in DOMAIN Spread(sent'.task) =>
                      /\ f \in DOMAIN TASKS'[sent'.id].v.o
                      /\ TASKS'[sent'.id].v.o[f] = sent'.task.o[f]
                /\ f \notin DOMAIN Spread(sent'.task) => f \notin DOMAIN TASKS'[sent'.id].v.o
                /\ (KVGet(TASKS, sent'.id) = sent'.task /\ HasField(TASKS, sent'.id, f)) =>
                      TASKS'[sent'.id].v.o[f] = TASKS[sent'.id].v.o[f] ]_vars

\* C8 witness: a PUT that set only the title has kept the status "done" that an
\* earlier PUT had set.
C8_Witness ==
    /\ Answered /\ sent.route = PutTask /\ sent.status = 200
    /\ "status" \notin DOMAIN sent.body /\ "title" \in DOMAIN sent.body
    /\ sent.id \in DOMAIN created
    /\ HasField(TASKS, sent.id, "status") /\ HasField(TASKS, sent.id, "title")
    /\ TASKS[sent.id].v.o.status = "done"
    /\ TASKS[sent.id].v.o.title = sent.body.title.s

\* C9: an accepted GET /api/v1/tasks/:id for an id that is not the id of a task in
\* the store (never created, or deleted) is answered 404 with a body, and changes
\* nothing.
C9_GetAbsentIs404 ==
    (Answered /\ sent.route = GetTask /\ HandlerRan
       /\ (sent.id \notin DOMAIN created \/ BagIn(sent.id, deleted))) =>
        /\ sent.status = 404
        /\ sent.resp.kind # "none"
        /\ \A i \in 1..Len(sent.ops) : sent.ops[i].op = "get" \/ sent.ops[i].key = rateLimitKey(sent.ip)

\* The task objects of the store, without key k
ObjectsWithout(store, k) == [j \in {j \in DOMAIN store : IsObj(store, j)} \ {k} |-> store[j]]

\* C10: an accepted DELETE of a task is answered 200 with a message, removes the
\* record of that id and no other, and changes nothing when the id is absent, as
\* it is after a first DELETE; likewise DELETE of a comment on the comment store.
C10_DeleteIdempotent ==
    [][ /\ DeleteTaskAnswered =>
            /\ sent'.status = 200
            /\ sent'.resp = JsonMessage("Task deleted successfully")
            /\ sent'.id \notin DOMAIN TASKS'
            /\ ObjectsWithout(TASKS', sent'.id) = ObjectsWithout(TASKS, sent'.id)
            /\ sent'.id \notin DOMAIN TASKS => TASKS' = TASKS
            /\ COMMENTS' = COMMENTS
        /\ DeleteCommentAnswered =>
            LET key == commentKey(sent'.id, sent'.cid) IN
            /\ sent'.status = 200
            /\ sent'.resp = JsonMessage("Comment deleted successfully")
            /\ key \notin DOMAIN COMMENTS'
            /\ ObjectsWithout(COMMENTS', key) = ObjectsWithout(COMMENTS, key)
            /\ key \notin DOMAIN COMMENTS => COMMENTS' = COMMENTS
            /\ TASKS' = TASKS ]_vars

\* C10 witness: the second DELETE of a task that a first DELETE removed is
\* answered 200.
C10_Witness ==
    /\ Answered /\ sent.route = DeleteTask /\ sent.status = 200
    /\ sent.id \in DOMAIN created
    /\ CopiesIn(sent.id, deleted) >= 2
    /\ sent.id \notin DOMAIN TASKS

\* C11: an accepted POST /api/v1/tasks/:id/comments for an id under which no task
\* was ever created is answered 404 and performs no write on the comment store,
\* and every comment of the comment store names a parent that was created as a task.
C11_CommentNeedsTask ==
    /\ (Answered /\ sent.route = PostComment /\ HandlerRan /\ sent.id \notin DOMAIN created) =>
          /\ sent.status = 404
          /\ \A i \in 1..Len(sent.ops) : sent.ops[i].store # "COMMENTS"
    /\ \A k \in DOMAIN COMMENTS :
          IsObj(COMMENTS, k) => COMMENTS[k].v.o.taskId \in DOMAIN created

\* The messages the code sends as the string of an error field
ErrorStrings == {"Unauthorized", "Too many requests", "Internal Server Error"}

\* The fields of a task record other than links
RecordFields == {"id", "title", "status", "priority", "labels", "createdAt", "updatedAt"}

\* C13: an accepted GET /api/v1/tasks/:id of a task that POST /api/v1/tasks created
\* and that no PUT or DELETE has written since is answered 200 with the id, title,
\* status, priority, labels, createdAt and updatedAt of the 201 response, and with
\* no field but links besides.
C13_RoundTrip ==
    (Answered /\ sent.route = GetTask /\ HandlerRan /\ sent.id \in DOMAIN fresh) =>
        /\ sent.status = 200
        /\ DOMAIN sent.resp.obj = RecordFields \cup {"links"}
        /\ \A f \in RecordFields : sent.resp.obj[f] = fresh[sent.id][f]

\* C13 witness: a GET returned the task that a POST with title "b" had just created.
C13_Witness ==
    /\ Answered /\ sent.route = GetTask /\ sent.status = 200
    /\ sent.id \in DOMAIN fresh
    /\ fresh[sent.id].title = "b"
    /\ sent.resp.obj.title = "b"
    /\ sent.resp.obj.updatedAt = fresh[sent.id].updatedAt

\* C14: every response with an error status (400, 401, 403, 404, 429, 500) has a
\* JSON object body whose error field is a string.
C14_ErrorBodiesAreJson ==
    (Answered /\ sent.status >= 400) =>
        /\ sent.resp.kind = "json"
        /\ "error" \in DOMAIN sent.resp.obj
        /\ sent.resp.obj.error \in ErrorStrings

\* C19: the value under a rate-limit key changes only when the rate limiter writes
\* a number there or when the key expires, and an accepted GET, PUT or DELETE
\* /api/v1/tasks/:id with that key as id does not find it.
C19_CounterOnlyByLimiter ==
    [][ \A ip \in IPs :
          LET key == rateLimitKey(ip) IN
          /\ KVGet(TASKS', key) # KVGet(TASKS, key) =>
                \/ /\ key \in DOMAIN TASKS /\ key \notin DOMAIN TASKS'
                   /\ TASKS[key].exp # NoExpiration /\ now' >= TASKS[key].exp
                \/ /\ key \in DOMAIN TASKS'
                   /\ TASKS'[key].v.t = "num"
          /\ (sent'.pc = "done" /\ sent'.route \in {GetTask, PutTask} /\ HandlerRan' /\ sent'.id = key) =>
                sent'.status = 404 ]_vars

\* C20: once an accepted DELETE /api/v1/tasks/:id of a created task has been
\* answered and the task is absent, no later step stores anything under that id,
\* and every later accepted GET of that id is answered 404.
C20_DeletedStaysAbsent ==
    [][ /\ \A id \in DOMAIN created :
              (BagIn(id, deleted) /\ id \notin DOMAIN TASKS) => id \notin DOMAIN TASKS'
        /\ (sent'.pc = "done" /\ sent'.route = GetTask /\ HandlerRan'
              /\ sent'.id \in DOMAIN created /\ BagIn(sent'.id, deleted)) =>
              sent'.status = 404 ]_vars

---------------------------------------------------------------------------
(* Properties of the list routes, under ListSpec *)

\* The last step answered a GET /api/v1/tasks with 200
Listed == Answered /\ sent.route = ListTasks /\ sent.status = 200

\* A query parameter is present and not empty
Given(query, name) == name \in DOMAIN query /\ query[name] # <<>>

\* C12, as claimed: for every status value s of the query, also the empty one, a
\* 200 response of GET /api/v1/tasks?status=s holds only records whose status is
\* s, likewise for priority, and metadata.total is the number of records returned.
C12_FilterEveryValue ==
    Listed =>
        LET r == sent.resp.obj IN
        /\ "status" \in DOMAIN sent.query =>
              \A i \in 1..Len(r.tasks) :
                  "status" \in DOMAIN r.tasks[i] /\ r.tasks[i].status = Join(sent.query.status)
        /\ "priority" \in DOMAIN sent.query =>
              \A i \in 1..Len(r.tasks) :
                  "priority" \in DOMAIN r.tasks[i] /\ r.tasks[i].priority = Join(sent.query.priority)
        /\ r.metadata.total = Len(r.tasks)

\* C12, amended: for every non-empty status value s, a 200 response of
\* GET /api/v1/tasks?status=s holds exactly the fetched records whose status is s,
\* likewise for priority; an empty value is no filter; metadata.total is the number
\* of records returned, which is at most the number of keys fetched.
C12_FilterNonEmptyValue ==
    Listed =>
        LET r == sent.resp.obj
            fetched == [i \in 1..Len(sent.keys) |-> Spread(sent.texts[i])]
            wanted(task) ==
                /\ Given(sent.query, "status") =>
                      ("status" \in DOMAIN task /\ task.status = Join(sent.query.status))
                /\ Given(sent.query, "priority") =>
                      ("priority" \in DOMAIN task /\ task.priority = Join(sent.query.priority))
        IN
        /\ \A i \in 1..Len(r.tasks) : wanted(r.tasks[i])
        /\ r.metadata.total = Len(r.tasks)
        /\ r.metadata.total = Len(SelectSeq(fetched, wanted))
        /\ r.metadata.total <= Len(sent.keys)

\* C12 witness: a list filtered by status=done returned one record of the two
\* or more fetched.
C12_Witness ==
    /\ Listed
    /\ Given(sent.query, "status") /\ Join(sent.query.status) = "done"
    /\ Len(sent.keys) >= 2
    /\ sent.resp.obj.metadata.total = 1
    /\ sent.resp.obj.tasks[1].status = "done"

\* The step answers an accepted request of the route without a store failure
AnsweredBy(route) ==
    /\ sent'.pc = "done" /\ sent'.route = route /\ HandlerRan'
    /\ \A i \in 1..Len(sent'.ops) : sent'.ops[i].op # "throws"

\* The comments stored under the prefix `${id}:`
CommentsOf(store, id) ==
    {store[k].v.o : k \in {k \in DOMAIN store : StartsWith(k, commentKey(id, <<>>))}}

\* A comment of a response, without its links
WithoutLinks(obj) == [f \in DOMAIN obj \ {"links"} |-> obj[f]]

\* C15: DELETE of a task leaves the comment store as it is; GET
\* /api/v1/tasks/:id/comments answers 200 with the comments it read under the
\* listed keys of the prefix, one per key (they are all the stored comments of the
\* prefix when no other request runs meanwhile), PUT of a comment answers 404
\* only when the comment itself is absent and stores the merged comment otherwise,
\* and DELETE of a comment answers 200: all three whether or not the task exists.
C15_NoCascade ==
    [][ /\ AnsweredBy(DeleteTask) => COMMENTS' = COMMENTS
        /\ AnsweredBy(ListComments) =>
              /\ sent'.status = 200 \/ (sent'.status = 500 /\ ~serial')
              /\ sent'.status = 200 =>
                    LET comments == sent'.resp.obj.comments
                        listed == {WithoutLinks(comments[i]) : i \in 1..Len(comments)}
                        stored == {WithoutLinks(c) : c \in CommentsOf(COMMENTS', sent'.id)}
                    IN  /\ Len(comments) = Len(sent'.keys)
                        /\ \A i \in 1..Len(comments) :
                              /\ StartsWith(sent'.keys[i], commentKey(sent'.id, <<>>))
                              /\ WithoutLinks(comments[i]) = WithoutLinks(Spread(sent'.texts[i]))
                              /\ comments[i].taskId = sent'.id
                        /\ Len(comments) > 0 => listed \cap stored # {}
                        /\ serial' => listed = stored
                        /\ sent'.resp.obj.metadata.total = Len(comments)
        /\ AnsweredBy(PutComment) =>
              LET key == commentKey(sent'.id, sent'.cid) IN
              /\ sent'.status = 404 <=> sent'.task.t = "null"
              /\ sent'.status # 404 =>
                    /\ sent'.status = 200
                    /\ KVGet(COMMENTS', key) = JsonText(sent'.resp.obj)
                    /\ \A f \in {"id", "taskId", "createdAt"} : sent'.resp.obj[f] = sent'.task.o[f]
        /\ AnsweredBy(DeleteComment) =>
              /\ sent'.status = 200
              /\ commentKey(sent'.id, sent'.cid) \notin DOMAIN COMMENTS' ]_vars

\* C15 witness: the two comments of a task were listed after the task had been
\* deleted.
C15_Witness ==
    /\ Answered /\ sent.route = ListComments /\ sent.status = 200
    /\ sent.id \in DOMAIN created /\ BagIn(sent.id, deleted) /\ sent.id \notin DOMAIN TASKS
    /\ Len(sent.resp.obj.comments) = 2
    /\ sent.resp.obj.comments[1].taskId = sent.id

\* C16: a request whose store operation threw is answered 500 with the body
\* {error: 'Internal Server Error'}, never 401, and a request that csrf refused is
\* answered 403 or 401, not 500.
C16_FaultsAre500CsrfIs403 ==
    /\ (Answered /\ \E i \in 1..Len(sent.ops) : sent.ops[i].op = "throws") =>
          /\ sent.status = 500
          /\ sent.resp = JsonError("Internal Server Error")
    /\ (Answered /\ sent.stages = <<"cors", "jwt", "csrf">>) => sent.status \in {401, 403}

\* C17: in every 200 response of GET /api/v1/tasks metadata.page and metadata.limit
\* are positive integers, links.prev is null exactly when page is at most 1, and
\* links.next is a string.
C17_PageAndLimitPositive ==
    Listed =>
        LET r == sent.resp.obj IN
        /\ r.metadata.page.t = "num" /\ r.metadata.page.n >= 1
        /\ r.metadata.limit.t = "num" /\ r.metadata.limit.n >= 1
        /\ r.links.prev = Null <=> r.metadata.page.n <= 1
        /\ r.links.next.t = "string"

\* C18: every element of tasks in a 200 response of GET /api/v1/tasks is the record
\* of a task that POST /api/v1/tasks created, and no key fetched for the page is a
\* rate-limit key.
C18_ListHoldsTasksOnly ==
    Listed =>
        /\ \A i \in 1..Len(sent.resp.obj.tasks) :
              /\ "id" \in DOMAIN sent.resp.obj.tasks[i]
              /\ sent.resp.obj.tasks[i].id \in DOMAIN created
        /\ \A i \in 1..Len(sent.keys) : \A ip \in IPs : sent.keys[i] # rateLimitKey(ip)

====
